---- MODULE Spec2Model ----
(***************************************************************************)
(* dir_walker: Walker (builder + recursive traversal), Entry (result tree),*)
(* Entry::find and Entry::into_iter, modelled over a small file system.    *)
(*                                                                         *)
(* A file name is a sequence of bytes, a path the sequence of its normal   *)
(* components (the root directory "/" is the empty sequence).              *)
(***************************************************************************)
EXTENDS Integers, Sequences, FiniteSets, TLC

VARIABLES
    fs,        \* the file system the walker runs on (unchanged by the crate)
    walker,    \* the Walker struct: root, skip_dotted, skip_directories,
               \* max_depth, max_entries, _counter
    pc,        \* "live", or "panicked" once a call has panicked
    calls,     \* the number of Walker methods called so far
    walked,    \* the Walker each call of walk_dir started from, oldest first
    results,   \* the values returned by the calls of walk_dir, oldest first
    entry,     \* the Entry held by the caller: Some(tree), None once moved
    items,     \* Some([self, ret]) when the last call was self.into_iter()
    found      \* Some([self, name, ret]) when the last call was self.find(name)

vars == <<fs, walker, pc, calls, walked, results, entry, items, found>>

----------------------------------------------------------------------------
(* Bounds of the model *)

MaxDepthArg == 2      \* max_depth(d) is called with d in 0..MaxDepthArg
MaxEntriesArg == 6    \* max_entries(m) is called with m in 0..MaxEntriesArg
MaxCalls == 3         \* methods of the Walker called in one run
MaxNodes == 4         \* hand-built Entry trees have at most MaxNodes nodes
LinkFuel == 3         \* symbolic links followed while resolving one path

----------------------------------------------------------------------------
(* Bytes and names *)

DOT == 46
SLASH == 47
BSLASH == 92

DefaultMaxEntries == 10000
DefaultMaxDepth == 100

n_fx == <<102, 120>>            \* "fx"
n_a == <<97>>                   \* "a"
n_b == <<98>>                   \* "b"
n_d == <<100>>                  \* "d"
n_x == <<120>>                  \* "x"
n_y == <<121>>                  \* "y"
n_git == <<46, 103>>            \* ".g"
n_hid == <<46, 104>>            \* ".h"
n_H == <<72>>                   \* "H"
n_l == <<108>>                  \* "l"
n_s == <<115>>                  \* "s"
n_bs == <<99, 92, 46, 100>>     \* "c\.d" (one component on a Unix host)
n_p == <<112>>                  \* "p"
n_r == <<114>>                  \* "r"
n_nope == <<110, 111>>          \* "no"
n_ff == <<255>>                 \* one byte 0xFF: a name that is not UTF-8

None == <<>>
Some(x) == <<x>>

\* the element of a one-element set; The({ e : x \in {v} }) is `let x = v; e`,
\* v being computed once
The(S) == CHOOSE r \in S : TRUE

Last(s) == s[Len(s)]
Front(s) == SubSeq(s, 1, Len(s) - 1)
Min(a, b) == IF a <= b THEN a ELSE b

RECURSIVE Flatten(_)
Flatten(ss) == IF ss = <<>> THEN <<>> ELSE Head(ss) \o Flatten(Tail(ss))

RECURSIVE SeqToSet(_)
SeqToSet(s) == IF s = <<>> THEN {} ELSE {Head(s)} \cup SeqToSet(Tail(s))

----------------------------------------------------------------------------
(* std::path *)

\* Ord for OsStr: byte-wise lexicographic
BytesLt(a, b) ==
    \E i \in 1..(Min(Len(a), Len(b)) + 1) :
        /\ \A j \in 1..(i - 1) : a[j] = b[j]
        /\ IF i > Len(a) THEN i <= Len(b)
           ELSE i <= Len(b) /\ a[i] < b[i]

\* Ord for Path: component-wise lexicographic
PathLt(p, q) ==
    \E i \in 1..(Min(Len(p), Len(q)) + 1) :
        /\ \A j \in 1..(i - 1) : p[j] = q[j]
        /\ IF i > Len(p) THEN i <= Len(q)
           ELSE i <= Len(q) /\ BytesLt(p[i], q[i])

\* String::from_utf8_lossy: every maximal ill-formed prefix becomes U+FFFD
Replacement == <<239, 191, 189>>
IsContinuation(b) == b \in 128..191

\* the conversion of the bytes of s from index i on
RECURSIVE lossy_from(_, _)
lossy_from(s, i) ==
    IF i > Len(s) THEN <<>>
    ELSE LET b == s[i]
             n == Len(s)
             lo2 == IF b = 224 THEN 160 ELSE IF b = 240 THEN 144 ELSE 128
             hi2 == IF b = 237 THEN 159 ELSE IF b = 244 THEN 143 ELSE 191
             need == IF b \in 194..223 THEN 2
                     ELSE IF b \in 224..239 THEN 3
                     ELSE IF b \in 240..244 THEN 4
                     ELSE 0
             \* the length of the longest well-formed start of the sequence
             good == IF ~(n >= i + 1 /\ s[i + 1] \in lo2..hi2) THEN 1
                     ELSE IF need = 2 THEN 2
                     ELSE IF ~(n >= i + 2 /\ IsContinuation(s[i + 2])) THEN 2
                     ELSE IF need = 3 THEN 3
                     ELSE IF ~(n >= i + 3 /\ IsContinuation(s[i + 3])) THEN 3
                     ELSE 4
         IN IF b < 128 THEN <<b>> \o lossy_from(s, i + 1)
            ELSE IF need = 0 THEN Replacement \o lossy_from(s, i + 1)
            ELSE IF good = need
                 THEN SubSeq(s, i, i + need - 1) \o lossy_from(s, i + need)
            ELSE Replacement \o lossy_from(s, i + good)

to_string_lossy(s) == lossy_from(s, 1)

\* OsStr::to_str: Some exactly for well-formed UTF-8
to_str(s) == IF to_string_lossy(s) = s THEN Some(s) ELSE None

\* Path::display().to_string() of an absolute path
Display(p) ==
    IF p = <<>> THEN <<SLASH>>
    ELSE to_string_lossy(Flatten([i \in 1..Len(p) |-> <<SLASH>> \o p[i]]))

\* str::contains
Contains(s, pat) ==
    \E i \in 1..(Len(s) - Len(pat) + 1) : SubSeq(s, i, i + Len(pat) - 1) = pat

\* DirEntry::file_name
file_name(p) == Last(p)

----------------------------------------------------------------------------
(* The file system: std::fs and the Path predicates that touch it *)

Exists(p) == p \in DOMAIN fs.nodes
KindOf(p) == fs.nodes[p].kind

\* Path::canonicalize: every symbolic link resolved, the path must exist.
\* [ok, path, kind]
RECURSIVE Resolve(_, _, _)
Resolve(cur, rest, fuel) ==
    IF rest = <<>> THEN [ok |-> TRUE, path |-> cur, kind |-> ""]
    ELSE LET next == Append(cur, Head(rest)) IN
         IF ~Exists(next) THEN [ok |-> FALSE, path |-> <<>>, kind |-> "NotFound"]
         ELSE IF KindOf(next) = "symlink"
              THEN IF fuel = 0
                   THEN [ok |-> FALSE, path |-> <<>>, kind |-> "FilesystemLoop"]
                   ELSE Resolve(<<>>, fs.nodes[next].target \o Tail(rest), fuel - 1)
         ELSE IF Tail(rest) # <<>> /\ KindOf(next) # "dir"
              THEN [ok |-> FALSE, path |-> <<>>, kind |-> "NotADirectory"]
         ELSE Resolve(next, Tail(rest), fuel)

canonicalize(p) == Resolve(<<>>, p, LinkFuel)

\* Path::is_dir / is_file follow links; is_symlink does not
is_dir(p) ==
    \E c \in {canonicalize(p)} : c.ok /\ KindOf(c.path) = "dir"
is_file(p) ==
    \E c \in {canonicalize(p)} : c.ok /\ KindOf(c.path) = "file"
is_symlink(p) == Exists(p) /\ KindOf(p) = "symlink"

\* the items of a ReadDir stream: the stream ends with its first Err item
UntilErr(list) ==
    LET errs == {k \in 1..Len(list) : list[k].err} IN
    IF errs = {} THEN list
    ELSE SubSeq(list, 1, CHOOSE k \in errs : \A j \in errs : k <= j)

\* fs::read_dir: Err when the directory cannot be opened, else the items in
\* the order the file system hands them out.  An item is [err, path]: Ok of
\* the DirEntry with that path (p joined with the name), or the Err of a
\* readdir that failed at that entry.
read_dir(p) ==
    The({ IF ~c.ok THEN [ok |-> FALSE, kind |-> c.kind, list |-> <<>>]
          ELSE IF KindOf(c.path) # "dir"
               THEN [ok |-> FALSE, kind |-> "NotADirectory", list |-> <<>>]
          ELSE IF c.path \in fs.unreadable
               THEN [ok |-> FALSE, kind |-> "PermissionDenied", list |-> <<>>]
          ELSE The({ [ok |-> TRUE, kind |-> "",
                      list |-> UntilErr([i \in 1..Len(inside) |->
                                   [err |-> inside[i] \in fs.enterr,
                                    path |-> Append(p, Last(inside[i]))]])]
                     : inside \in {SelectSeq(fs.order,
                                     LAMBDA q : q # <<>> /\ Front(q) = c.path)} })
          : c \in {canonicalize(p)} })

\* .filter_map(|e| e.ok()): the paths of the Ok items
filter_map_ok(list) ==
    LET oks == SelectSeq(list, LAMBDA it : ~it.err) IN
    [i \in 1..Len(oks) |-> oks[i].path]

----------------------------------------------------------------------------
(* struct Entry *)

\* Entry::new
Entry_new(children, dirent, depth) ==
    [dirent |-> dirent, children |-> children, depth |-> depth]

\* EntryItem::new
EntryItem_new(dirent, depth) == [dirent |-> dirent, depth |-> depth]

----------------------------------------------------------------------------
(* impl Walker *)

\* Walker::new
Walker_new(root) ==
    [root |-> root,
     skip_dotted |-> FALSE,
     skip_directories |-> <<>>,
     max_entries |-> DefaultMaxEntries,
     max_depth |-> DefaultMaxDepth,
     counter |-> 0]

\* Walker::should_skip: TRUE when the path is kept
should_skip_no_list(w, path) ==
    \E path_str \in {Display(path)} :
        ~(w.skip_dotted /\ (Contains(path_str, <<SLASH, DOT>>)
                             \/ Contains(path_str, <<BSLASH, DOT>>)))

should_skip(w, path) ==
    \E path_str \in {Display(path)} :
        ~((w.skip_dotted /\ (Contains(path_str, <<SLASH, DOT>>)
                              \/ Contains(path_str, <<BSLASH, DOT>>)))
          \/ path \in SeqToSet(w.skip_directories))

\* entries.sort_by_key(|f| f.path()): a stable sort
RECURSIVE InsertByPath(_, _)
InsertByPath(sorted, e) ==
    IF sorted = <<>> THEN <<e>>
    ELSE IF PathLt(e, Head(sorted)) THEN <<e>> \o sorted
    ELSE <<Head(sorted)>> \o InsertByPath(Tail(sorted), e)

RECURSIVE sort_by_key(_)
sort_by_key(s) ==
    IF s = <<>> THEN <<>>
    ELSE InsertByPath(sort_by_key(Front(s)), Last(s))

\* Walker::get_entries: [ok, kind, list]
get_entries(w, path, dirs_only) ==
    IF is_dir(path)
    THEN The({ IF ~rd.ok THEN rd
               ELSE [ok |-> TRUE, kind |-> "",
                     list |-> sort_by_key(
                         SelectSeq(filter_map_ok(rd.list),
                                   LAMBDA e : /\ should_skip(w, e)
                                              /\ ~is_symlink(e)
                                              /\ IF dirs_only THEN is_dir(e)
                                                 ELSE is_file(e)))]
               : rd \in {read_dir(path)} })
    ELSE [ok |-> TRUE, kind |-> "", list |-> <<>>]

\* Walker::read_entries: [ok, kind, list]
read_entries_files_first(w, path) ==
    The({ IF ~dirs.ok THEN dirs
          ELSE The({ IF ~files.ok THEN files
                     ELSE [ok |-> TRUE, kind |-> "",
                           list |-> files.list \o dirs.list]
                     : files \in {get_entries(w, path, FALSE)} })
          : dirs \in {get_entries(w, path, TRUE)} })

read_entries(w, path) ==
    The({ IF ~dirs.ok THEN dirs
          ELSE The({ IF ~files.ok THEN files
                     ELSE [ok |-> TRUE, kind |-> "",
                           list |-> dirs.list \o files.list]
                     : files \in {get_entries(w, path, FALSE)} })
          : dirs \in {get_entries(w, path, TRUE)} })

\* `if self._counter == self.max_entries`
AtCapNever(w, counter) == FALSE

AtCapOneLate(w, counter) == counter = w.max_entries + 1

AtCap(w, counter) == counter = w.max_entries

\* `if depth <= self.max_depth`
WithinDepthOneMore(w, depth) == depth <= w.max_depth + 1

WithinDepth(w, depth) == depth <= w.max_depth

\* `if self._counter >= self.max_entries`
PastCap(w, counter) == counter >= w.max_entries

\* Walker::walk_dir_inner, self._counter threaded through as `counter`:
\* [ok, kind, children, counter]
RECURSIVE walk_dir_inner(_, _, _, _)
RECURSIVE walk_loop(_, _, _, _, _, _)

\* the `for entry in entries` loop from its i-th iteration on
walk_loop(w, entries, i, children, depth, counter) ==
    IF i > Len(entries)
    THEN [ok |-> TRUE, kind |-> "", children |-> children, counter |-> counter]
    ELSE LET c1 == counter + 1 IN
         IF AtCap(w, c1)
         THEN [ok |-> TRUE, kind |-> "", children |-> children, counter |-> c1]
         ELSE IF WithinDepth(w, depth)
              THEN The({ IF ~sub.ok THEN sub
                         ELSE The({ IF PastCap(w, sub.counter)
                                    THEN [ok |-> TRUE, kind |-> "",
                                          children |-> pushed,
                                          counter |-> sub.counter]
                                    ELSE walk_loop(w, entries, i + 1, pushed,
                                                   depth, sub.counter)
                                    : pushed \in
                                        {Append(children,
                                                Entry_new(sub.children,
                                                          Some(entries[i]),
                                                          depth))} })
                         : sub \in {walk_dir_inner(w, entries[i], depth + 1, c1)} })
              ELSE walk_loop(w, entries, i + 1, children, depth, c1)

walk_dir_inner(w, path, depth, counter) ==
    The({ IF ~entries.ok
          THEN [ok |-> FALSE, kind |-> entries.kind, children |-> <<>>,
                counter |-> counter]
          ELSE walk_loop(w, entries.list, 1, <<>>, depth, counter)
          : entries \in {read_entries(w, path)} })

\* get_parent_entry: [tag, kind, dirent]; tag is "Ok", "Err" or "Panic"
get_parent_entry(path) ==
    IF path = <<>>
    THEN [tag |-> "Panic", kind |-> "unwrap on None", dirent |-> <<>>]
    ELSE The({ IF ~rd.ok
               THEN [tag |-> "Panic", kind |-> "expect on Err", dirent |-> <<>>]
               ELSE The({ IF hit = <<>>
                          THEN [tag |-> "Err", kind |-> "InvalidInput",
                                dirent |-> <<>>]
                          ELSE [tag |-> "Ok", kind |-> "", dirent |-> Head(hit)]
                          : hit \in {SelectSeq(filter_map_ok(rd.list),
                                               LAMBDA e : e = path)} })
               : rd \in {read_dir(Front(path))} })

\* the return values of walk_dir
RetOk(e) == [tag |-> "Ok", kind |-> "", entry |-> Some(e)]
RetErr(k) == [tag |-> "Err", kind |-> k, entry |-> None]
RetPanic(k) == [tag |-> "Panic", kind |-> k, entry |-> None]

\* Walker::walk_dir started with self._counter = counter:
\* [ret, counter], counter being self._counter afterwards
walk_dir_from(w, counter) ==
    The({ IF ~root.ok THEN [ret |-> RetErr(root.kind), counter |-> counter]
          ELSE The({ IF root_entry.tag = "Panic"
                     THEN [ret |-> RetPanic(root_entry.kind), counter |-> counter]
                     ELSE IF root_entry.tag = "Err"
                     THEN [ret |-> RetErr(root_entry.kind), counter |-> counter]
                     ELSE The({ IF ~inner.ok
                                THEN [ret |-> RetErr(inner.kind),
                                      counter |-> inner.counter]
                                ELSE [ret |-> RetOk(Entry_new(inner.children,
                                                 Some(root_entry.dirent), 0)),
                                      counter |-> inner.counter]
                                : inner \in
                                    {walk_dir_inner(w, root.path, 0, counter)} })
                     : root_entry \in {get_parent_entry(root.path)} })
          : root \in {canonicalize(w.root)} })

walk_dir(w) == walk_dir_from(w, w.counter)

----------------------------------------------------------------------------
(* Entry::into_iter and Entry::find *)

\* node.children.reverse(); ...for_each(|c| queue.push_front(c))   (into_iter)
RECURSIVE PushFrontEach(_, _)
PushFrontEach(queue, cs) ==
    IF cs = <<>> THEN queue
    ELSE PushFrontEach(<<Head(cs)>> \o queue, Tail(cs))

Reverse(s) == [i \in 1..Len(s) |-> s[Len(s) + 1 - i]]

iter_push_no_reverse(queue, children) == PushFrontEach(queue, children)

iter_push(queue, children) == PushFrontEach(queue, Reverse(children))

\* the `while let Some(node) = queue.pop_front()` loop of into_iter
RECURSIVE into_iter_loop(_, _)
into_iter_loop(queue, flat_vec) ==
    IF queue = <<>> THEN flat_vec
    ELSE LET node == Head(queue)
             flat2 == IF node.dirent # None
                      THEN Append(flat_vec,
                                  EntryItem_new(node.dirent[1], node.depth))
                      ELSE flat_vec
         IN into_iter_loop(iter_push(Tail(queue), node.children), flat2)

into_iter(self) == into_iter_loop(<<self>>, <<>>)

\* node.children.reverse(); ...for_each(|c| queue.push_front(c))   (find)
find_push_back(queue, children) == queue \o children

find_push(queue, children) == PushFrontEach(queue, Reverse(children))

\* the `while let Some(node) = queue.pop_front()` loop of find
RECURSIVE find_loop(_, _)
find_loop(queue, name) ==
    IF queue = <<>> THEN None
    ELSE LET node == Head(queue) IN
         IF /\ node.dirent # None
            /\ to_str(file_name(node.dirent[1])) # None
            /\ to_str(file_name(node.dirent[1]))[1] = name
         THEN Some(node)
         ELSE find_loop(find_push(Tail(queue), node.children), name)

find(self, name) == find_loop(<<self>>, name)

----------------------------------------------------------------------------
(* The file systems and the arguments the model runs the crate on *)

p_root == <<>>
p_fx == <<n_fx>>
p_a == <<n_fx, n_a>>
p_ax == <<n_fx, n_a, n_x>>
p_ah == <<n_fx, n_a, n_hid>>
p_ad == <<n_fx, n_a, n_d>>
p_ady == <<n_fx, n_a, n_d, n_y>>
p_b == <<n_fx, n_b>>
p_git == <<n_fx, n_git>>
p_gitH == <<n_fx, n_git, n_H>>
p_l == <<n_fx, n_l>>
p_al == <<n_fx, n_a, n_l>>
p_s == <<n_fx, n_s>>
p_bs == <<n_fx, n_bs>>
p_p == <<n_p>>
p_pr == <<n_p, n_r>>
p_prx == <<n_p, n_r, n_x>>
p_prff == <<n_p, n_r, n_ff>>
p_nope == <<n_nope>>

Dir == [kind |-> "dir", target |-> <<>>]
File == [kind |-> "file", target |-> <<>>]
Other == [kind |-> "other", target |-> <<>>]
Link(t) == [kind |-> "symlink", target |-> t]

\* /fx/{a/{x,.h,l -> /fx/b,d/{y}}, b, .g/{H}, l -> /fx/a, s (a socket), c\.d},
\* /p/r/{x, 0xFF}
Nodes ==
    (p_root :> Dir) @@ (p_fx :> Dir) @@ (p_a :> Dir) @@ (p_ax :> File)
    @@ (p_ah :> File) @@ (p_ad :> Dir) @@ (p_ady :> File) @@ (p_b :> File)
    @@ (p_git :> Dir) @@ (p_gitH :> File) @@ (p_l :> Link(p_a))
    @@ (p_al :> Link(p_b))
    @@ (p_s :> Other) @@ (p_bs :> File) @@ (p_p :> Dir) @@ (p_pr :> Dir)
    @@ (p_prx :> File) @@ (p_prff :> File)

\* an order in which read_dir hands the entries out (not sorted)
ReadDirOrder ==
    <<p_bs, p_s, p_b, p_l, p_a, p_git, p_ax, p_al, p_ad, p_ah, p_ady, p_gitH,
      p_p, p_fx, p_pr, p_prx, p_prff>>

FileSystems ==
    { [nodes |-> Nodes, order |-> o, unreadable |-> f.unreadable,
       enterr |-> f.enterr] :
        o \in {ReadDirOrder, Reverse(ReadDirOrder)},
        f \in {[unreadable |-> {}, enterr |-> {}],
               [unreadable |-> {p_p, p_ad}, enterr |-> {p_b}]} }

Roots == {p_fx, p_b, p_l, p_git, p_nope, p_pr, p_root}

SkipLists == {<<>>, <<p_a>>, <<p_l, p_ad>>, <<p_git, p_fx>>, <<p_nope>>}

FindNames == {n_x, n_d}

----------------------------------------------------------------------------
(* The walker and its caller *)

Init ==
    /\ fs \in FileSystems
    /\ \E root \in Roots : walker = Walker_new(root)
    /\ pc = "live"
    /\ calls = 0
    /\ walked = <<>>
    /\ results = <<>>
    /\ entry = None
    /\ items = None
    /\ found = None

\* The builder methods take the Walker by value and return it: they can be
\* called at any time, before and between the calls of walk_dir.
Configuring == pc = "live" /\ calls < MaxCalls

\* Walker::skip_dotted
SkipDotted ==
    /\ Configuring
    /\ walker' = [walker EXCEPT !.skip_dotted = TRUE]
    /\ calls' = calls + 1
    /\ items' = None /\ found' = None
    /\ UNCHANGED <<fs, pc, walked, results, entry>>

\* Walker::skip_directories: canonicalize().unwrap() on each path
SkipDirectories ==
    /\ Configuring
    /\ \E directories \in SkipLists :
        LET canon == [i \in 1..Len(directories) |-> canonicalize(directories[i])] IN
        IF \E i \in 1..Len(directories) : ~canon[i].ok
        THEN /\ pc' = "panicked"
             /\ UNCHANGED walker
        ELSE /\ walker' = [walker EXCEPT !.skip_directories =
                              [i \in 1..Len(directories) |-> canon[i].path]]
             /\ UNCHANGED pc
    /\ calls' = calls + 1
    /\ items' = None /\ found' = None
    /\ UNCHANGED <<fs, walked, results, entry>>

\* Walker::max_depth
MaxDepth ==
    /\ Configuring
    /\ \E depth \in 0..MaxDepthArg :
        walker' = [walker EXCEPT !.max_depth = depth]
    /\ calls' = calls + 1
    /\ items' = None /\ found' = None
    /\ UNCHANGED <<fs, pc, walked, results, entry>>

\* Walker::max_entries
MaxEntries ==
    /\ Configuring
    /\ \E max \in 0..MaxEntriesArg :
        walker' = [walker EXCEPT !.max_entries = max]
    /\ calls' = calls + 1
    /\ items' = None /\ found' = None
    /\ UNCHANGED <<fs, pc, walked, results, entry>>

\* Walker::walk_dir; the caller keeps the returned Entry
WalkDir ==
    /\ pc = "live"
    /\ calls < MaxCalls
    /\ LET r == walk_dir(walker) IN
        /\ results' = Append(results, r.ret)
        /\ walked' = Append(walked, walker)
        /\ walker' = [walker EXCEPT !.counter = r.counter]
        /\ pc' = IF r.ret.tag = "Panic" THEN "panicked" ELSE "live"
        /\ entry' = r.ret.entry
    /\ items' = None
    /\ found' = None
    /\ calls' = calls + 1
    /\ UNCHANGED fs

\* Entry::into_iter (consumes the Entry)
IntoIter ==
    /\ pc = "live"
    /\ entry # None
    /\ items' = Some([self |-> entry[1], ret |-> into_iter(entry[1])])
    /\ entry' = None
    /\ found' = None
    /\ UNCHANGED <<fs, walker, pc, calls, walked, results>>

\* Entry::find (consumes the Entry)
Find ==
    /\ pc = "live"
    /\ entry # None
    /\ \E name \in FindNames :
        found' = Some([self |-> entry[1], name |-> name,
                       ret |-> find(entry[1], name)])
    /\ entry' = None
    /\ items' = None
    /\ UNCHANGED <<fs, walker, pc, calls, walked, results>>

Next ==
    \/ SkipDotted
    \/ SkipDirectories
    \/ MaxDepth
    \/ MaxEntries
    \/ WalkDir
    \/ IntoIter
    \/ Find

Spec == Init /\ [][Next]_vars

----------------------------------------------------------------------------
(* Entry values built by hand (the fields of Entry are public), for the   *)
(* properties of into_iter and find that hold of every tree               *)

DirentChoices == {None, Some(p_ax), Some(p_prx), Some(p_ad)}
DepthChoices == {0, 1}

RECURSIVE NodeCount(_)
RECURSIVE NodeCountAll(_)
NodeCount(e) == 1 + NodeCountAll(e.children)
NodeCountAll(cs) ==
    IF cs = <<>> THEN 0 ELSE NodeCount(Head(cs)) + NodeCountAll(Tail(cs))

\* the positions (index paths) of the nodes of a tree
RECURSIVE Positions(_)
Positions(e) ==
    {<<>>} \cup UNION { { <<i>> \o q : q \in Positions(e.children[i]) } :
                          i \in 1..Len(e.children) }

\* e with a new last child pushed at position pos: children.push(leaf)
RECURSIVE PushAt(_, _, _)
PushAt(e, pos, leaf) ==
    IF pos = <<>> THEN [e EXCEPT !.children = Append(@, leaf)]
    ELSE [e EXCEPT !.children[Head(pos)] = PushAt(@, Tail(pos), leaf)]

InitTree ==
    /\ fs \in {f \in FileSystems : f.unreadable = {} /\ f.enterr = {}}
    /\ walker = Walker_new(p_fx)
    /\ pc = "live"
    /\ calls = 0
    /\ walked = <<>>
    /\ results = <<>>
    /\ \E d \in DirentChoices, k \in DepthChoices : entry = Some(Entry_new(<<>>, d, k))
    /\ items = None
    /\ found = None

AddChild ==
    /\ entry # None
    /\ NodeCount(entry[1]) < MaxNodes
    /\ \E pos \in Positions(entry[1]), d \in DirentChoices, k \in DepthChoices :
        entry' = Some(PushAt(entry[1], pos, Entry_new(<<>>, d, k)))
    /\ UNCHANGED <<fs, walker, pc, calls, walked, results, items, found>>

NextTree ==
    \/ AddChild
    \/ IntoIter
    \/ Find

SpecTree == InitTree /\ [][NextTree]_vars

----------------------------------------------------------------------------
(* Reading a tree by structural recursion, independently of into_iter     *)

\* the flat items of a tree in recursive pre-order
RECURSIVE PreOrder(_)
RECURSIVE PreOrderAll(_)
PreOrder(e) ==
    (IF e.dirent # None THEN <<EntryItem_new(e.dirent[1], e.depth)>> ELSE <<>>)
    \o PreOrderAll(e.children)
PreOrderAll(cs) ==
    IF cs = <<>> THEN <<>> ELSE PreOrder(Head(cs)) \o PreOrderAll(Tail(cs))

\* the nodes that carry an entry record, each with its subtree, in pre-order
RECURSIVE RecordNodes(_)
RECURSIVE RecordNodesAll(_)
RecordNodes(e) ==
    (IF e.dirent # None THEN <<e>> ELSE <<>>) \o RecordNodesAll(e.children)
RecordNodesAll(cs) ==
    IF cs = <<>> THEN <<>>
    ELSE RecordNodes(Head(cs)) \o RecordNodesAll(Tail(cs))

\* every node with its level: the top node is at level -1, its children at 0
RECURSIVE Levelled(_, _)
Levelled(e, k) ==
    {[node |-> e, level |-> k]}
    \cup UNION { Levelled(e.children[i], k + 1) : i \in 1..Len(e.children) }

\* <<parent path, path>> for every node below the top node, in pre-order
RECURSIVE Edges(_)
RECURSIVE EdgesAll(_, _)
Edges(e) == EdgesAll(e.dirent[1], e.children)
EdgesAll(parent, cs) ==
    IF cs = <<>> THEN <<>>
    ELSE <<<<parent, Head(cs).dirent[1]>>>> \o Edges(Head(cs))
         \o EdgesAll(parent, Tail(cs))

NoDuplicates(s) == \A i, j \in 1..Len(s) : s[i] = s[j] => i = j

OkResults == {i \in 1..Len(results) : results[i].tag = "Ok"}
\* the Walker the first walk_dir started from: freshly built or reconfigured, _counter = 0
Fresh == walked[1]
Tree(i) == results[i].entry[1]

\* a component of the path begins with '.'
HasDotComponent(p) == \E i \in 1..Len(p) : p[i] # <<>> /\ p[i][1] = DOT

IsUnder(root, p) == Len(p) > Len(root) /\ SubSeq(p, 1, Len(root)) = root

\* the file system hands the entry out when its parent is listed
Listed(p) ==
    LET rd == read_dir(Front(p)) IN
    rd.ok /\ \E k \in 1..Len(rd.list) : ~rd.list[k].err /\ rd.list[k].path = p

\* the entry is one the directory reader may hand out: listed, not excluded,
\* not dot-skipped, not a symbolic link, a directory or a regular file
Admitted(w, p) ==
    /\ Listed(p)
    /\ p \notin SeqToSet(w.skip_directories)
    /\ ~(w.skip_dotted /\ HasDotComponent(p))
    /\ KindOf(p) \in {"dir", "file"}

\* the admitted entries under root down to depth maxd (the children of root
\* are at depth 0), each reached through admitted directories only
Reference(w, root, maxd) ==
    {p \in DOMAIN fs.nodes :
        /\ IsUnder(root, p)
        /\ Len(p) - Len(root) - 1 <= maxd
        /\ \A n \in (Len(root) + 1)..Len(p) :
            /\ Admitted(w, SubSeq(p, 1, n))
            /\ (n < Len(p) => KindOf(SubSeq(p, 1, n)) = "dir")}

\* a cap and a depth no walk over fs reaches
NoCap == Cardinality(DOMAIN fs.nodes) + 2
NoDepthCap == Cardinality(DOMAIN fs.nodes) + 2

----------------------------------------------------------------------------
(* The claims *)

\* C1: with max_entries above the number of admitted entries under the root,
\* the first successful walk_dir of a Walker returns the reference tree: the
\* top node is the canonical root, and below it every admitted entry of depth
\* <= max_depth appears exactly once, under its parent, and nothing else.
\* The code also drops names that contain "\." when skip_dotted is set.
C1_ReferenceTree ==
    (/\ 1 \in OkResults
     /\ Fresh.max_entries
            > Cardinality(Reference(Fresh, canonicalize(Fresh.root).path,
                                    NoDepthCap)))
    => LET root == canonicalize(Fresh.root).path
           edges == Edges(Tree(1))
       IN /\ Tree(1).dirent = Some(root)
          /\ NoDuplicates(edges)
          /\ SeqToSet(edges)
                = { <<Front(p), p>> : p \in Reference(Fresh, root, Fresh.max_depth) }

\* the children of every node of e: directories before files, each group in
\* increasing path order
Ordered(e) ==
    \A x \in Levelled(e, -1) :
        LET cs == x.node.children IN
        \A i, j \in 1..Len(cs) :
            i < j =>
                LET p1 == cs[i].dirent[1]
                    p2 == cs[j].dirent[1]
                IN /\ ~(is_file(p1) /\ is_dir(p2))
                   /\ ((is_dir(p1) /\ is_dir(p2)) \/ (is_file(p1) /\ is_file(p2))
                        => PathLt(p1, p2))

\* C2: in every tree walk_dir returns, at every node, no directory child comes
\* after a file child, and two children of the same kind are in increasing
\* path order.
C2_ChildrenOrdered == \A i \in OkResults : Ordered(Tree(i))

\* a walk returned a node with two directories and two files among its children
C2_Witness ==
    \E i \in OkResults :
        LET cs == Tree(i).children IN
        /\ Cardinality({k \in 1..Len(cs) : is_dir(cs[k].dirent[1])}) >= 2
        /\ Cardinality({k \in 1..Len(cs) : is_file(cs[k].dirent[1])}) >= 2

\* C3: the tree returned by the first walk_dir of a Walker with
\* max_entries >= 1 holds at most max_entries entry records, the root's
\* included.
C3_AtMostMaxEntries ==
    (1 \in OkResults /\ Fresh.max_entries >= 1)
        => Len(RecordNodes(Tree(1))) <= Fresh.max_entries

\* the cap cut the first walk: the tree is full and the uncapped tree is larger
C3_Witness ==
    /\ 1 \in OkResults
    /\ Fresh.max_entries >= 2
    /\ Len(RecordNodes(Tree(1))) = Fresh.max_entries
    /\ LET u == walk_dir_from([Fresh EXCEPT !.max_entries = NoCap], 0).ret IN
        u.tag = "Ok" /\ Len(RecordNodes(u.entry[1])) > Fresh.max_entries

\* C4: if the tree of the same walk without the entry cap has at least
\* max_entries records, the first walk_dir of a Walker with max_entries >= 1
\* returns exactly the first max_entries items of that tree's flat view.
\* The code counts the entries one level below max_depth without keeping them.
C4_CappedIsPrefix ==
    (1 \in OkResults /\ Fresh.max_entries >= 1)
        => LET u == walk_dir_from([Fresh EXCEPT !.max_entries = NoCap], 0).ret
               capped == into_iter(Tree(1))
           IN (u.tag = "Ok" /\ Len(into_iter(u.entry[1])) >= Fresh.max_entries)
                => capped = SubSeq(into_iter(u.entry[1]), 1, Fresh.max_entries)

\* C5: in every tree walk_dir returns, a node k levels below the root's
\* children has depth = k and k <= max_depth, and every flat item has
\* depth <= max_depth.
C5_DepthField ==
    \A i \in OkResults :
        /\ \A x \in Levelled(Tree(i), -1) :
              x.level >= 0 => (x.node.depth = x.level /\ x.level <= walked[i].max_depth)
        /\ \A k \in 1..Len(into_iter(Tree(i))) :
              into_iter(Tree(i))[k].depth <= walked[i].max_depth

\* the depth cap cut a walk: /fx/a/d sits at depth max_depth = 1 with no
\* children, while /fx/a/d/y is an admitted file
C5_Witness ==
    \E i \in OkResults :
        /\ walked[i].max_depth = 1
        /\ \E x \in Levelled(Tree(i), -1) :
              /\ x.node.dirent = Some(p_ad)
              /\ x.level = 1
              /\ x.node.children = <<>>
        /\ p_ady \in Reference(walked[i], p_fx, NoDepthCap)

\* the path is a symbolic link, an excluded path or (when skip_dotted is set)
\* a path with a component that begins with '.'
Filtered(w, p) ==
    \/ is_symlink(p)
    \/ p \in SeqToSet(w.skip_directories)
    \/ (w.skip_dotted /\ HasDotComponent(p))

\* C6 as claimed: no node of a returned tree, the top node included, is a
\* symbolic link, an excluded path or a dot-skipped path.
C6_NoFilteredNode ==
    \A i \in OkResults :
        \A x \in Levelled(Tree(i), -1) : ~Filtered(walked[i], x.node.dirent[1])

\* C6 as amended: the top node of a returned tree is not a symbolic link (it
\* is the canonical root, which the exclusion and dot filters are not applied
\* to), and no node below the top node is a symbolic link, an excluded path
\* or a dot-skipped path.
C6_NoFilteredNodeBelowRoot ==
    \A i \in OkResults :
        /\ ~is_symlink(Tree(i).dirent[1])
        /\ \A x \in Levelled(Tree(i), -1) :
              x.level >= 0 => ~Filtered(walked[i], x.node.dirent[1])

\* a walk whose root /fx/l is a symbolic link to /fx/a, with skip_dotted and
\* with /fx/a (the canonical root) and /fx/a/d excluded, returned /fx/a with
\* children, while /fx/a holds a link, a dotted file and the excluded directory
C6_Witness ==
    \E i \in OkResults :
        /\ walked[i].root = p_l
        /\ is_symlink(walked[i].root)
        /\ walked[i].skip_dotted
        /\ {p_a, p_ad} \subseteq SeqToSet(walked[i].skip_directories)
        /\ Tree(i).dirent = Some(p_a)
        /\ Tree(i).children # <<>>
        /\ \A p \in {p_al, p_ah, p_ad} : Listed(p)

\* the two Walkers have the same configuration (_counter left aside)
SameConfiguration(w1, w2) ==
    [w1 EXCEPT !.counter = 0] = [w2 EXCEPT !.counter = 0]

\* C7: calls of walk_dir on one Walker with an unchanged configuration over
\* an unchanged file system return the same value.  The code never resets
\* _counter.
C7_WalksAgree ==
    \A i, j \in 1..Len(results) :
        SameConfiguration(walked[i], walked[j]) => results[i] = results[j]

\* C8: into_iter yields the (path, depth) items of exactly the nodes that
\* carry an entry record, in recursive pre-order.
C8_IntoIterIsPreOrder ==
    items # None => items[1].ret = PreOrder(items[1].self)

\* into_iter ran on a tree with a record-less node, a node with two children
\* and a grandchild, and yielded three items or more
C8_Witness ==
    /\ items # None
    /\ Len(items[1].ret) >= 3
    /\ \E x \in Levelled(items[1].self, -1) : x.node.dirent = None
    /\ \E x \in Levelled(items[1].self, -1) :
          /\ Len(x.node.children) >= 2
          /\ x.node.children[1].children # <<>>

\* the indices of the flat view whose final path component is name
Hits(flat, name) == {k \in 1..Len(flat) : file_name(flat[k].dirent) = name}

\* C9: find(name) returns the node (with its subtree) whose record is the
\* first item of into_iter with final component name, and None exactly when
\* no item has that final component.
C9_FindIsFirstInFlatView ==
    found # None
        => LET flat == into_iter(found[1].self)
               hits == Hits(flat, found[1].name)
           IN IF hits = {} THEN found[1].ret = None
              ELSE LET k == CHOOSE h \in hits : \A g \in hits : h <= g
                   IN found[1].ret = Some(RecordNodes(found[1].self)[k])

\* find returned a node that is not the first item of the flat view: a
\* record with another name comes before it, and a later node, nearer to the
\* top, has the same name
C9_Witness ==
    /\ found # None
    /\ found[1].ret # None
    /\ file_name(into_iter(found[1].self)[1].dirent) # found[1].name
    /\ \E x, y \in Levelled(found[1].self, -1) :
          /\ x.node = found[1].ret[1]
          /\ y.node.dirent # None
          /\ y.node.dirent # x.node.dirent
          /\ file_name(y.node.dirent[1]) = found[1].name
          /\ y.level < x.level

\* C10: every file-system failure met by walk_dir is returned as Err, never
\* a panic: a root that cannot be canonicalized, a parent of the root or a
\* visited directory that cannot be read give an I/O error, a root missing
\* from its parent's listing gives InvalidInput.  get_parent_entry panics
\* instead when the parent cannot be read (or the root is "/").
C10_FailuresAreErr ==
    \A i \in 1..Len(results) :
        LET r == results[i]
            c == canonicalize(walked[i].root)
            IoError == r.tag = "Err" /\ r.kind # "InvalidInput"
        IN /\ r.tag # "Panic"
           /\ ~c.ok => IoError
           /\ (c.ok /\ c.path # <<>> /\ ~read_dir(Front(c.path)).ok) => IoError
           /\ (c.ok /\ c.path # <<>> /\ read_dir(Front(c.path)).ok
                 /\ ~Listed(c.path))
                => (r.tag = "Err" /\ r.kind = "InvalidInput")
           /\ r.tag = "Ok"
                => \A x \in Levelled(r.entry[1], -1) :
                      x.node.dirent[1] \notin fs.unreadable

\* p comes before q in the order of the directory reader: directories first,
\* then files, each group by path
ReadsBefore(p, q) ==
    \/ is_dir(p) /\ is_file(q)
    \/ ((is_dir(p) /\ is_dir(q)) \/ (is_file(p) /\ is_file(q))) /\ PathLt(p, q)

\* the admitted children of the canonical root of w
AdmittedChildren(w) == Reference(w, canonicalize(w.root).path, 0)

\* the first walk ran with max_entries = 1 on a root with an admitted child
C11_Case ==
    /\ 1 \in OkResults
    /\ Fresh.max_entries = 1
    /\ AdmittedChildren(Fresh) # {}

\* C11 as claimed: with max_entries = 1 and a root that has an admitted
\* child, the first walk_dir returns the root's first admitted child, no other
\* child of the root and no descendant of that child.
C11_FirstChildOnly ==
    C11_Case
        => LET first == CHOOSE p \in AdmittedChildren(Fresh) :
                            \A q \in AdmittedChildren(Fresh) \ {p} : ReadsBefore(p, q)
           IN /\ Len(Tree(1).children) = 1
              /\ Tree(1).children[1].dirent = Some(first)
              /\ Tree(1).children[1].children = <<>>

\* C11 as amended: with max_entries = 1 and a root that has an admitted
\* child, the first walk_dir returns the top node alone: the root's record
\* is the one entry, and no child of the root is included.
C11_RootOnly ==
    C11_Case
        => /\ Tree(1).dirent = Some(canonicalize(Fresh.root).path)
           /\ Tree(1).children = <<>>
           /\ Len(into_iter(Tree(1))) = 1

\* the first walk of /fx ran with max_entries = 1 while the directory reader
\* hands out two children of /fx or more
C11_Witness ==
    /\ C11_Case
    /\ canonicalize(Fresh.root).path = p_fx
    /\ Len(read_entries(Fresh, p_fx).list) >= 2

====
